---- MODULE Spec2Model ----
(***************************************************************************)
(* Surface-13 / Surface-17 code switcher.                                  *)
(*                                                                         *)
(* Every circuit of the repository is built from Hadamard, CNOT, CZ, the   *)
(* Pauli gates and quarter-turn RY rotations applied to |0...0>, so the    *)
(* register is always a stabilizer state.  The state vector of the         *)
(* simulator is represented by its stabilizer tableau (destabilizer rows   *)
(* 1..n, stabilizer rows n+1..2n); the expectation value of a Pauli string *)
(* on such a state is exactly -1, 0 or +1 and is computed from the         *)
(* tableau.  Floating-point rounding error of the simulator is not         *)
(* modelled: the values are the exact ones.                                *)
(***************************************************************************)
EXTENDS Integers, Sequences, FiniteSets, TLC

----------------------------------------------------------------------------
(* Code registry *)

NUM_DATA_QUBITS == 9
S13_NUM_ANCILLAS == 4
S17_NUM_ANCILLAS == 8
S13_QUBITS == NUM_DATA_QUBITS + S13_NUM_ANCILLAS
S17_QUBITS == NUM_DATA_QUBITS + S17_NUM_ANCILLAS

DATA == 0 .. (NUM_DATA_QUBITS - 1)

S13_STABILIZERS ==
  << [name |-> "S1", type |-> "X", data |-> <<0, 3, 6>>, ancilla |-> 9],
     [name |-> "S2", type |-> "Z", data |-> <<0, 1, 2>>, ancilla |-> 10],
     [name |-> "S3", type |-> "Z", data |-> <<6, 7, 8>>, ancilla |-> 11],
     [name |-> "S4", type |-> "X", data |-> <<2, 5, 8>>, ancilla |-> 12] >>

S13_LOGICAL_X == <<0, 1, 2>>
S13_LOGICAL_Z == <<0, 3, 6>>

S17_STABILIZERS ==
  << [name |-> "S1", type |-> "X", data |-> <<0, 1, 3, 4>>, ancilla |-> 9],
     [name |-> "S2", type |-> "X", data |-> <<1, 2>>,       ancilla |-> 10],
     [name |-> "S3", type |-> "X", data |-> <<4, 5, 7, 8>>, ancilla |-> 11],
     [name |-> "S4", type |-> "X", data |-> <<6, 7>>,       ancilla |-> 12],
     [name |-> "S5", type |-> "Z", data |-> <<0, 3>>,       ancilla |-> 13],
     [name |-> "S6", type |-> "Z", data |-> <<1, 2, 4, 5>>, ancilla |-> 14],
     [name |-> "S7", type |-> "Z", data |-> <<3, 4, 6, 7>>, ancilla |-> 15],
     [name |-> "S8", type |-> "Z", data |-> <<5, 8>>,       ancilla |-> 16] >>

S17_LOGICAL_X == <<2, 4, 6>>
S17_LOGICAL_Z == <<0, 4, 8>>

\* error_qubit=None
NoQubit == -1

ErrorTypes == {"X", "Y", "Z"}

\* an error_type string that is none of the three the circuits test for
UnsupportedTypes == {"Q"}

\* The error arguments a caller passes: none, or one error type on one data
\* qubit.
ErrorInputs ==
  {<<"None", NoQubit>>} \cup ((ErrorTypes \cup UnsupportedTypes) \X DATA)

Range(s) == {s[i] : i \in DOMAIN s}

----------------------------------------------------------------------------
(* Amplitude engine: stabilizer tableau of the register *)

\* A row is the Pauli operator (-1)^r * prod_q i^(x_q z_q) X^(x_q) Z^(z_q);
\* x and z are sequences of bits, the bit of qubit q at index q + 1.
Bit(bits, q) == bits[q + 1]

Xor(a, b) == (a + b) % 2

Unit(n, k) == [q \in 1 .. n |-> IF q = k THEN 1 ELSE 0] \o <<>>

\* Fresh device: all wires in |0>; destabilizers X_q, stabilizers Z_q.
InitTab(n) ==
  [i \in 1 .. 2 * n |->
     IF i <= n THEN [x |-> Unit(n, i), z |-> Unit(n, 0), r |-> 0]
               ELSE [x |-> Unit(n, 0), z |-> Unit(n, i - n), r |-> 0]] \o <<>>

\* H: X <-> Z, Y -> -Y
Hadamard(row, a) ==
  [x |-> [row.x EXCEPT ![a + 1] = Bit(row.z, a)],
   z |-> [row.z EXCEPT ![a + 1] = Bit(row.x, a)],
   r |-> Xor(row.r, Bit(row.x, a) * Bit(row.z, a))]

\* control a, target b: X_a -> X_a X_b, Z_b -> Z_a Z_b
CNOT(row, a, b) ==
  [x |-> [row.x EXCEPT ![b + 1] = Xor(Bit(row.x, b), Bit(row.x, a))],
   z |-> [row.z EXCEPT ![a + 1] = Xor(Bit(row.z, a), Bit(row.z, b))],
   r |-> Xor(row.r, Bit(row.x, a) * Bit(row.z, b)
                    * (1 - Xor(Bit(row.x, b), Bit(row.z, a))))]

\* X_a -> X_a Z_b, X_b -> Z_a X_b
CZ(row, a, b) ==
  [x |-> row.x,
   z |-> [row.z EXCEPT ![a + 1] = Xor(Bit(row.z, a), Bit(row.x, b)),
                       ![b + 1] = Xor(Bit(row.z, b), Bit(row.x, a))],
   r |-> Xor(row.r, Bit(row.x, a) * Bit(row.x, b)
                    * Xor(Bit(row.z, a), Bit(row.z, b)))]

PauliX(row, a) == [row EXCEPT !.r = Xor(row.r, Bit(row.z, a))]

PauliZ(row, a) == [row EXCEPT !.r = Xor(row.r, Bit(row.x, a))]

PauliY(row, a) ==
  [row EXCEPT !.r = Xor(row.r, Xor(Bit(row.x, a), Bit(row.z, a)))]

\* RY(s * pi/2), s = +1 or -1.  RY(pi/2): Z -> X, X -> -Z;
\* RY(-pi/2): Z -> -X, X -> Z; Y is fixed by both.
RY(row, s, a) ==
  [x |-> [row.x EXCEPT ![a + 1] = Bit(row.z, a)],
   z |-> [row.z EXCEPT ![a + 1] = Bit(row.x, a)],
   r |-> IF s = 1
         THEN Xor(row.r, Bit(row.x, a) * (1 - Bit(row.z, a)))
         ELSE Xor(row.r, Bit(row.z, a) * (1 - Bit(row.x, a)))]

\* Gate records: g the gate, a the first wire, b the second wire (CNOT, CZ:
\* control a, target b) or the sign of the angle (RY).
G1(g, a) == [g |-> g, a |-> a, b |-> a]
G2(g, a, b) == [g |-> g, a |-> a, b |-> b]

ApplyRow(row, gate) ==
  CASE gate.g = "Hadamard" -> Hadamard(row, gate.a)
    [] gate.g = "CNOT"     -> CNOT(row, gate.a, gate.b)
    [] gate.g = "CZ"       -> CZ(row, gate.a, gate.b)
    [] gate.g = "PauliX"   -> PauliX(row, gate.a)
    [] gate.g = "PauliY"   -> PauliY(row, gate.a)
    [] gate.g = "PauliZ"   -> PauliZ(row, gate.a)
    [] gate.g = "RY"       -> RY(row, gate.b, gate.a)

\* every row is rewritten; the result is again a sequence of rows
ApplyGate(t, gate) == [i \in DOMAIN t |-> ApplyRow(t[i], gate)] \o <<>>

RECURSIVE ApplyGates(_, _)
\* the gates of the list applied in order: the first half of the list to t,
\* then the second half to the result (the state t is computed before the
\* gates that act on it)
ApplyGates(t, gates) ==
  IF t = <<>> \/ gates = <<>> THEN t
  ELSE IF Len(gates) = 1 THEN ApplyGate(t, gates[1])
  ELSE LET h == Len(gates) \div 2
       IN  ApplyGates(ApplyGates(t, SubSeq(gates, 1, h)),
                      SubSeq(gates, h + 1, Len(gates)))

\* TRUE iff the row anticommutes with X^px Z^pz (px, pz disjoint sets of
\* qubits).
Anticommutes(row, px, pz) ==
  (Cardinality({q \in px : Bit(row.z, q) = 1})
   + Cardinality({q \in pz : Bit(row.x, q) = 1})) % 2 = 1

\* Exponent of i picked up on one qubit when the Pauli (x1, z1) is
\* multiplied onto the Pauli (x2, z2).
PhaseG(x1, z1, x2, z2) ==
  IF x1 = 0 /\ z1 = 0 THEN 0
  ELSE IF x1 = 1 /\ z1 = 1 THEN z2 - x2
  ELSE IF x1 = 1 THEN z2 * (2 * x2 - 1)
  ELSE x2 * (1 - 2 * z2)

PhaseSum(row, acc) ==
  LET g(q) == PhaseG(row.x[q], row.z[q], acc.x[q], acc.z[q])
  IN  Cardinality({q \in DOMAIN row.x : g(q) = 1})
      - Cardinality({q \in DOMAIN row.x : g(q) = -1})

\* row * acc; acc.r counts the phase in units of i (0..3).
RowMult(row, acc) ==
  [x |-> [q \in DOMAIN row.x |-> Xor(row.x[q], acc.x[q])] \o <<>>,
   z |-> [q \in DOMAIN row.z |-> Xor(row.z[q], acc.z[q])] \o <<>>,
   r |-> (acc.r + 2 * row.r + PhaseSum(row, acc) + 4 * Len(row.x)) % 4]

RECURSIVE StabProduct(_, _, _, _, _)
StabProduct(t, n, i, px, pz) ==
  IF i = 0 THEN [x |-> Unit(n, 0), z |-> Unit(n, 0), r |-> 0]
  ELSE LET acc == StabProduct(t, n, i - 1, px, pz)
       IN  IF Anticommutes(t[i], px, pz) THEN RowMult(t[n + i], acc) ELSE acc

\* qml.expval of the Pauli string X on px, Z on pz.
Expval(t, px, pz) ==
  LET n == Len(t) \div 2
  IN  IF \E i \in (n + 1) .. (2 * n) : Anticommutes(t[i], px, pz) THEN 0
      ELSE IF StabProduct(t, n, n, px, pz).r = 0 THEN 1 ELSE -1

ExpvalZ(t, wires) == Expval(t, {}, Range(wires))
ExpvalX(t, wires) == Expval(t, Range(wires), {})

----------------------------------------------------------------------------
(* Gate sequences shared by the circuits *)

\* one gate g on every wire of the list, in order
OnEach(g, wires) == [i \in DOMAIN wires |-> G1(g, wires[i])]

\* an injection that applies a Pauli-X whatever the error type
ErrorGatesAlwaysX(error_type, error_qubit) ==
  IF error_type # "None" /\ error_qubit # NoQubit
  THEN <<G1("PauliX", error_qubit)>>
  ELSE <<>>

\* error_type / error_qubit branch: nothing unless both are given
ErrorGates(error_type, error_qubit) ==
  IF error_type # "None" /\ error_qubit # NoQubit
  THEN IF error_type = "X" THEN <<G1("PauliX", error_qubit)>>
       ELSE IF error_type = "Z" THEN <<G1("PauliZ", error_qubit)>>
       ELSE IF error_type = "Y" THEN <<G1("PauliY", error_qubit)>>
       ELSE <<>>
  ELSE <<>>

\* the check circuit with the two Hadamards on the ancilla left out
XCheckNoHadamard(stab) ==
  [i \in DOMAIN stab.data |-> G2("CNOT", stab.ancilla, stab.data[i])]

\* Hadamard on the ancilla, CNOT ancilla -> each data qubit, Hadamard
XCheck(stab) ==
  <<G1("Hadamard", stab.ancilla)>>
  \o [i \in DOMAIN stab.data |-> G2("CNOT", stab.ancilla, stab.data[i])]
  \o <<G1("Hadamard", stab.ancilla)>>

\* CNOT each data qubit -> ancilla
ZCheck(stab) ==
  [i \in DOMAIN stab.data |-> G2("CNOT", stab.data[i], stab.ancilla)]

StabCheck(stab) == IF stab.type = "X" THEN XCheck(stab) ELSE ZCheck(stab)

RECURSIVE Concat(_)
Concat(ss) == IF ss = <<>> THEN <<>> ELSE Head(ss) \o Concat(Tail(ss))

----------------------------------------------------------------------------
(* surface_13_code.py: surface13_circuit and reference_circuit *)

\* the four stabilizer circuits, S1..S4 in the order the circuit applies them
Surface13Check(k) == StabCheck(S13_STABILIZERS[k])

Surface13Return(t) ==
  << ExpvalZ(t, <<9>>), ExpvalZ(t, <<10>>), ExpvalZ(t, <<11>>),
     ExpvalZ(t, <<12>>), ExpvalZ(t, <<0, 3, 6>>) >>

surface13_circuit(error_type, error_qubit) ==
  Surface13Return(
    ApplyGates(InitTab(S13_QUBITS),
               ErrorGates(error_type, error_qubit)
               \o Concat([k \in 1 .. 4 |-> Surface13Check(k)])))

reference_circuit ==
  Surface13Return(
    ApplyGates(InitTab(S13_QUBITS),
               Concat([k \in 1 .. 4 |-> Surface13Check(k)])))

----------------------------------------------------------------------------
(* surface_17_code.py: prepare_and_measure and run_surface17 *)

\* state preparation of one X-type generator: the check circuit followed by
\* the Pauli-X the code calls the ancilla reset
Surface17Prepare(stab) == XCheck(stab) \o <<G1("PauliX", stab.ancilla)>>

Surface17XStabilizers == SelectSeq(S17_STABILIZERS, LAMBDA s : s.type = "X")

\* a preparation that never applies the logical X
Surface17LogicalXNone(initial) == <<>>

Surface17LogicalX(initial) ==
  IF initial = 1 THEN OnEach("PauliX", S17_LOGICAL_X) ELSE <<>>

Surface17Return(t) ==
  [k \in 1 .. 9 |->
     IF k <= 8 THEN ExpvalZ(t, <<S17_STABILIZERS[k].ancilla>>)
     ELSE ExpvalZ(t, S17_LOGICAL_Z)]

prepare_and_measure(initial, error_type, error_qubit) ==
  Surface17Return(
    ApplyGates(InitTab(S17_QUBITS),
               Concat([k \in 1 .. Len(Surface17XStabilizers) |->
                         Surface17Prepare(Surface17XStabilizers[k])])
               \o Surface17LogicalX(initial)
               \o ErrorGates(error_type, error_qubit)
               \o Concat([k \in 1 .. 8 |-> StabCheck(S17_STABILIZERS[k])])))

\* a report that takes the sign of each value and ignores the reference run
Surface17ReportAbsolute(vals, ref_vals) ==
  [k \in 1 .. 9 |-> IF vals[k] > 0 THEN 1 ELSE -1]

\* syndrome relative to the reference run, then the sign of logical_z
Surface17Report(vals, ref_vals) ==
  [k \in 1 .. 9 |->
     IF k <= 8 THEN (IF vals[k] # ref_vals[k] THEN -1 ELSE 1)
     ELSE (IF vals[9] > 0 THEN 1 ELSE -1)]

----------------------------------------------------------------------------
(* code_switcher.py: code_conversion_circuit *)

\* max(S13_QUBITS, S17_QUBITS) + 1
max_qubits == (IF S13_QUBITS > S17_QUBITS THEN S13_QUBITS ELSE S17_QUBITS) + 1

\* supports written out in the conversion circuit
ConvXData(code) ==
  IF code = "surface13" THEN << <<0, 3, 6>>, <<2, 5, 8>> >>
  ELSE << <<0, 1, 3, 4>>, <<1, 2>>, <<4, 5, 7, 8>>, <<6, 7>> >>

ConvZData(code) ==
  IF code = "surface13" THEN << <<0, 1, 2>>, <<6, 7, 8>> >>
  ELSE << <<0, 3>>, <<1, 2, 4, 5>>, <<3, 4, 6, 7>>, <<5, 8>> >>

ConvLogicalX(code) == IF code = "surface13" THEN <<0, 1, 2>> ELSE <<2, 4, 6>>
ConvLogicalZ(code) == IF code = "surface13" THEN <<0, 3, 6>> ELSE <<0, 4, 8>>

\* Hadamard on the first qubit of the support, CNOT from it to the others,
\* Hadamard on the first qubit
ConvXStab(stab_data) ==
  <<G1("Hadamard", stab_data[1])>>
  \o [i \in 1 .. (Len(stab_data) - 1) |->
        G2("CNOT", stab_data[1], stab_data[i + 1])]
  \o <<G1("Hadamard", stab_data[1])>>

\* CZ from the first qubit of the support to each of the others
ConvZStab(stab_data) ==
  [i \in 1 .. (Len(stab_data) - 1) |-> G2("CZ", stab_data[1], stab_data[i + 1])]

ConvXStabs(code) ==
  Concat([k \in DOMAIN ConvXData(code) |-> ConvXStab(ConvXData(code)[k])])

ConvZStabs(code) ==
  Concat([k \in DOMAIN ConvZData(code) |-> ConvZStab(ConvZData(code)[k])])

\* the partial syndrome circuit that follows an injected error
ConvSourceSyndrome(code, error_qubit) ==
  IF code = "surface13"
  THEN (IF error_qubit \in {0, 3, 6} THEN ConvXStab(<<0, 3, 6>>) ELSE <<>>)
       \o (IF error_qubit \in {2, 5, 8} THEN ConvXStab(<<2, 5, 8>>) ELSE <<>>)
  ELSE (IF error_qubit \in {0, 1, 3, 4} THEN ConvXStab(<<0, 1, 3, 4>>) ELSE <<>>)
       \o (IF error_qubit \in {5, 8} THEN <<G2("CZ", 5, 8)>> ELSE <<>>)

\* the wire the code calls the temporary ancilla of the read-out
transfer_qubit == 9

\* read-out of the source logical Z onto the transfer qubit
ConvExtract(code) ==
  <<G1("Hadamard", transfer_qubit)>>
  \o [i \in 1 .. 3 |-> G2("CNOT", transfer_qubit, ConvLogicalZ(code)[i])]
  \o <<G1("Hadamard", transfer_qubit)>>

\* copy of the transfer qubit onto qubit 0
ConvTransfer == <<G2("CNOT", transfer_qubit, 0)>>

\* the rotation pair the code uses as a reset
ConvReset(q) == <<G2("RY", q, -1), G2("RY", q, 1)>>

ConvFanOut == [q \in 1 .. 8 |-> G2("CNOT", 0, q)]

OtherCode(code) == IF code = "surface13" THEN "surface17" ELSE "surface13"

\* the blocks of the circuit, in program order
\* an order of the blocks with the reset loop before the read-out
ConvStagesResetFirst ==
  << "source_stabilizers", "source_logical_x", "inject_error",
     "source_syndrome", "reset", "extract", "transfer", "reset_ancilla",
     "fan_out",
     "target_x_stabilizers", "target_z_stabilizers", "target_logical_x",
     "measure", "done" >>

ConvStages ==
  << "source_stabilizers", "source_logical_x", "inject_error",
     "source_syndrome", "extract", "transfer", "reset_ancilla", "reset",
     "fan_out",
     "target_x_stabilizers", "target_z_stabilizers", "target_logical_x",
     "measure", "done" >>

\* the condition under which the code executes a block
ConvRuns(stage, initial, error_type, error_qubit) ==
  CASE stage \in {"source_logical_x", "extract", "transfer", "reset_ancilla",
                  "target_logical_x"} -> initial = 1
    [] stage \in {"inject_error", "source_syndrome"} ->
         error_type # "None" /\ error_qubit # NoQubit
    [] OTHER -> TRUE

\* the gates of a block (the reset loop is one qubit per step)
ConvGates(stage, source_code, error_type, error_qubit, q) ==
  CASE stage = "source_stabilizers"   -> ConvXStabs(source_code)
    [] stage = "source_logical_x"     -> OnEach("PauliX", ConvLogicalX(source_code))
    [] stage = "inject_error"         -> ErrorGates(error_type, error_qubit)
    [] stage = "source_syndrome"      -> ConvSourceSyndrome(source_code, error_qubit)
    [] stage = "extract"              -> ConvExtract(source_code)
    [] stage = "transfer"             -> ConvTransfer
    [] stage = "reset_ancilla"        -> ConvReset(transfer_qubit)
    [] stage = "reset"                -> ConvReset(q)
    [] stage = "fan_out"              -> ConvFanOut
    [] stage = "target_x_stabilizers" -> ConvXStabs(OtherCode(source_code))
    [] stage = "target_z_stabilizers" -> ConvZStabs(OtherCode(source_code))
    [] stage = "target_logical_x"     ->
         OnEach("PauliX", ConvLogicalX(OtherCode(source_code)))
    [] OTHER -> <<>>

\* the Pauli strings of the return statement for the target code: one per
\* generator, then the logical Z
ConvObservables(target_code) ==
  IF target_code = "surface13"
  THEN << [type |-> "Z", wires |-> <<0, 3, 6>>],
          [type |-> "X", wires |-> <<0, 1, 2>>],
          [type |-> "X", wires |-> <<6, 7, 8>>],
          [type |-> "Z", wires |-> <<2, 5, 8>>],
          [type |-> "Z", wires |-> <<0, 3, 6>>] >>
  ELSE << [type |-> "X", wires |-> <<0, 1, 3, 4>>],
          [type |-> "X", wires |-> <<1, 2>>],
          [type |-> "X", wires |-> <<4, 5, 7, 8>>],
          [type |-> "X", wires |-> <<6, 7>>],
          [type |-> "Z", wires |-> <<0, 3>>],
          [type |-> "Z", wires |-> <<1, 2, 4, 5>>],
          [type |-> "Z", wires |-> <<3, 4, 6, 7>>],
          [type |-> "Z", wires |-> <<5, 8>>],
          [type |-> "Z", wires |-> <<0, 4, 8>>] >>

\* qml.expval of one Pauli string of a single type
ExpvalOf(t, obs) ==
  IF obs.type = "X" THEN ExpvalX(t, obs.wires) ELSE ExpvalZ(t, obs.wires)

\* a return statement that leaves out the logical Z
ConvReturnNoLogical(t, target_code) ==
  [k \in 1 .. (Len(ConvObservables(target_code)) - 1) |->
     ExpvalOf(t, ConvObservables(target_code)[k])] \o <<>>

\* the measurements returned for the target code
ConvReturn(t, target_code) ==
  [k \in DOMAIN ConvObservables(target_code) |->
     ExpvalOf(t, ConvObservables(target_code)[k])] \o <<>>

\* index of the first block after position i that the code executes
RECURSIVE NextRunning(_, _, _, _, _)
NextRunning(stages, i, initial, error_type, error_qubit) ==
  IF i + 1 >= Len(stages) THEN Len(stages)
  ELSE IF ConvRuns(stages[i + 1], initial, error_type, error_qubit) THEN i + 1
  ELSE NextRunning(stages, i + 1, initial, error_type, error_qubit)

\* the whole circuit as one function of its arguments
RECURSIVE ConvAllGates(_, _, _, _, _)
ConvAllGates(i, source_code, initial, error_type, error_qubit) ==
  IF i > Len(ConvStages) THEN <<>>
  ELSE (IF ~ConvRuns(ConvStages[i], initial, error_type, error_qubit) THEN <<>>
        ELSE IF ConvStages[i] = "reset"
             THEN Concat([q \in 1 .. 8 |-> ConvReset(q)])
             ELSE ConvGates(ConvStages[i], source_code, error_type, error_qubit, 0))
       \o ConvAllGates(i + 1, source_code, initial, error_type, error_qubit)

code_conversion_circuit(source_code, target_code, initial, error_type, error_qubit) ==
  ConvReturn(ApplyGates(InitTab(max_qubits),
                        ConvAllGates(1, source_code, initial, error_type, error_qubit)),
             target_code)

----------------------------------------------------------------------------
(* Decoders *)

EmptyCorrections == [status |-> "ok", X |-> <<>>, Z |-> <<>>]

\* the comparison of the flip test reversed
FlippedPositive(val) == val > 0

\* flips = int(val < 0)
Flipped(val) == val < 0

\* the weight table of the Z-stabilizer loop, in tenths (0.5 and 1.0)
z_weights == [S5 |-> 5, S6 |-> 10, S7 |-> 10, S8 |-> 5]

Surface17Index(name) ==
  CHOOSE k \in DOMAIN S17_STABILIZERS : S17_STABILIZERS[k].name = name

\* surface_17_code.decode_syndrome.  syndrome[k] is the value of generator
\* Sk; coin[name] is the outcome of random.random() < 0.7 when the loop
\* reaches that generator.
decode_syndrome(syndrome, coin) ==
  IF ~(\A k \in DOMAIN syndrome : syndrome[k] \in {1, -1})
  THEN [status |-> "ValueError", X |-> <<>>, Z |-> <<>>]
  ELSE
    LET flips == [k \in DOMAIN syndrome |-> Flipped(syndrome[k])]
        x_errors ==
          (IF flips[1] /\ flips[2] THEN <<1>> ELSE <<>>)
          \o (IF flips[3] /\ flips[4] THEN <<7>> ELSE <<>>)
          \o (IF flips[1] /\ flips[3] THEN <<4>> ELSE <<>>)
          \o (IF flips[2] /\ flips[4] THEN <<5>> ELSE <<>>)
        ZPick(name) ==
          IF flips[Surface17Index(name)]
             /\ (z_weights[name] = 10 \/ (z_weights[name] = 5 /\ coin[name]))
          THEN <<S17_STABILIZERS[Surface17Index(name)].data[1]>>
          ELSE <<>>
        z_all == ZPick("S5") \o ZPick("S6") \o ZPick("S7") \o ZPick("S8")
        z_errors == IF Len(z_all) >= 2 THEN <<4>> ELSE z_all
        InRange(q) == 0 <= q /\ q < 9
    IN  [status |-> "ok",
         X |-> SelectSeq(x_errors, InRange),
         Z |-> SelectSeq(z_errors, InRange)]

\* a table whose two-generator entries all sit on the centre qubit
error_patterns_centre ==
  [key \in {{2}, {3}, {1}, {4}, {1, 2}, {2, 4}, {1, 3}, {3, 4}} |->
     CASE key = {2}    -> [status |-> "ok", X |-> <<0>>, Z |-> <<>>]
       [] key = {3}    -> [status |-> "ok", X |-> <<6>>, Z |-> <<>>]
       [] key = {1}    -> [status |-> "ok", X |-> <<>>,  Z |-> <<0>>]
       [] key = {4}    -> [status |-> "ok", X |-> <<>>,  Z |-> <<2>>]
       [] OTHER        -> [status |-> "ok", X |-> <<4>>, Z |-> <<4>>]]

\* the error_patterns table, keyed by the set of flipped generator indices
\* (1 = S1 .. 4 = S4)
error_patterns ==
  [key \in {{2}, {3}, {1}, {4}, {1, 2}, {2, 4}, {1, 3}, {3, 4}} |->
     CASE key = {2}    -> [status |-> "ok", X |-> <<0>>, Z |-> <<>>]
       [] key = {3}    -> [status |-> "ok", X |-> <<6>>, Z |-> <<>>]
       [] key = {1}    -> [status |-> "ok", X |-> <<>>,  Z |-> <<0>>]
       [] key = {4}    -> [status |-> "ok", X |-> <<>>,  Z |-> <<2>>]
       [] key = {1, 2} -> [status |-> "ok", X |-> <<0>>, Z |-> <<0>>]
       [] key = {2, 4} -> [status |-> "ok", X |-> <<2>>, Z |-> <<2>>]
       [] key = {1, 3} -> [status |-> "ok", X |-> <<6>>, Z |-> <<6>>]
       [] key = {3, 4} -> [status |-> "ok", X |-> <<8>>, Z |-> <<8>>]]

\* the simple decoder of the fallback branch, over generators 1..k
RECURSIVE SimpleDecoder(_, _)
SimpleDecoder(flipped, k) ==
  IF k = 0 THEN EmptyCorrections
  ELSE LET c == SimpleDecoder(flipped, k - 1)
           stab_info == S13_STABILIZERS[k]
       IN  IF k \notin flipped THEN c
           ELSE IF stab_info.type = "X"
                THEN [c EXCEPT !.Z = Append(c.Z, stab_info.data[1])]
                ELSE [c EXCEPT !.X = Append(c.X, stab_info.data[1])]

\* surface_13_code.verify_syndrome: the generators (by index) expected to
\* flip: those of Z type containing the qubit for an X or Y error, those of
\* X type containing it for a Z or Y error
expected_flips(stabilizers, et, eq) ==
  IF et = "None" \/ eq = NoQubit THEN {}
  ELSE {k \in DOMAIN stabilizers :
          /\ eq \in Range(stabilizers[k].data)
          /\ \/ et \in {"X", "Y"} /\ stabilizers[k].type = "Z"
             \/ et \in {"Z", "Y"} /\ stabilizers[k].type = "X"}

\* a decoder that never consults the table
minimum_weight_decoder_no_table(syndromes) ==
  LET flipped == {k \in DOMAIN syndromes : Flipped(syndromes[k])}
  IN  SimpleDecoder(flipped, Len(syndromes))

\* surface_13_code.minimum_weight_decoder
minimum_weight_decoder(syndromes) ==
  LET flipped == {k \in DOMAIN syndromes : Flipped(syndromes[k])}
  IN  IF flipped = {} THEN EmptyCorrections
      ELSE IF flipped \in DOMAIN error_patterns THEN error_patterns[flipped]
      ELSE SimpleDecoder(flipped, Len(syndromes))

----------------------------------------------------------------------------
(* surface_13_code.py: the classical simulation of the syndrome *)

\* surface_13_code.simulate_surface13
simulate_surface13(et, eq) ==
  IF et = "None" \/ eq = NoQubit THEN <<1, 1, 1, 1, 1>>
  ELSE [k \in 1 .. 5 |->
          IF k <= 4
          THEN (IF /\ eq \in Range(S13_STABILIZERS[k].data)
                   /\ \/ et \in {"X", "Y"} /\ S13_STABILIZERS[k].type = "Z"
                      \/ et \in {"Z", "Y"} /\ S13_STABILIZERS[k].type = "X"
                THEN -1 ELSE 1)
          ELSE (IF et \in {"Z", "Y"} /\ eq \in Range(S13_LOGICAL_Z)
                THEN -1 ELSE 1)] \o <<>>

\* simulate_random_noise: the effect of one error of the list on the four
\* syndromes and on logical_z (entries 1..4 and 5)
NoiseStep(vals, e) ==
  [k \in 1 .. 5 |->
     IF k <= 4
     THEN (IF /\ e[2] \in Range(S13_STABILIZERS[k].data)
              /\ (e[1] \in {"X", "Y"} /\ S13_STABILIZERS[k].type = "Z")
                 # (e[1] \in {"Z", "Y"} /\ S13_STABILIZERS[k].type = "X")
           THEN -vals[k] ELSE vals[k])
     ELSE (IF e[1] \in {"Z", "Y"} /\ e[2] \in Range(S13_LOGICAL_Z)
           THEN -vals[5] ELSE vals[5])] \o <<>>

RECURSIVE NoiseSyndromes(_)
\* simulate_random_noise: all +1, then each error of the list in turn
\* (entries 1..4 are the list `syndromes`, entry 5 is logical_z)
NoiseSyndromes(errors) ==
  IF errors = <<>> THEN <<1, 1, 1, 1, 1>>
  ELSE NoiseStep(NoiseSyndromes(SubSeq(errors, 1, Len(errors) - 1)),
                 errors[Len(errors)])

----------------------------------------------------------------------------
(* surface_17_code.py: the two-error circuit of run_tests *)

\* a circuit that injects the first error only
multiple_error_circuit_first(e1, e2) ==
  Surface17Return(
    ApplyGates(InitTab(S17_QUBITS),
               Concat([k \in 1 .. Len(Surface17XStabilizers) |->
                         Surface17Prepare(Surface17XStabilizers[k])])
               \o ErrorGates(e1[1], e1[2])
               \o Concat([k \in 1 .. 8 |-> StabCheck(S17_STABILIZERS[k])])))

\* multiple_error_circuit: preparation, two Pauli errors one after the
\* other, the eight checks.  The test fixes the errors to X on qubit 1 and
\* Z on qubit 5; here they are the arguments e1 and e2.
multiple_error_circuit(e1, e2) ==
  Surface17Return(
    ApplyGates(InitTab(S17_QUBITS),
               Concat([k \in 1 .. Len(Surface17XStabilizers) |->
                         Surface17Prepare(Surface17XStabilizers[k])])
               \o ErrorGates(e1[1], e1[2])
               \o ErrorGates(e2[1], e2[2])
               \o Concat([k \in 1 .. 8 |-> StabCheck(S17_STABILIZERS[k])])))

----------------------------------------------------------------------------
(* State *)

VARIABLES
  prog,         \* entry point: "surface13", "surface17", "convert",
                \* "decode17" or "decode13"
  source_code,  \* code the register is encoded in
  target_code,  \* code the results are measured in
  initial,      \* initial logical value, 0 or 1
  error_type,   \* "None", "X", "Y" or "Z"
  error_qubit,  \* NoQubit or a data qubit
  pc,           \* block of the circuit that runs next
  step,         \* loop index inside the block
  tab,          \* the register
  raw,          \* values returned by the circuit, <<>> before it returns
  ref,          \* values returned by the no-error reference run
  report,       \* result of run_surface17
  syndrome,     \* decoder input
  decoded,      \* results of the decoder calls made so far
  error2,       \* second error of a two-error run, <<type, qubit>>
  calls         \* number of the circuit call in progress, counted from 1

vars == << prog, source_code, target_code, initial, error_type, error_qubit,
           pc, step, tab, raw, ref, report, syndrome, decoded, error2,
           calls >>

inputs == << prog, source_code, target_code, initial, error_type, error_qubit,
             syndrome, error2 >>

\* number of times the decoder is called on the same syndrome
MaxCalls == 2

\* number of circuit calls a caller makes one after the other
MaxRuns == 2

\* values a malformed syndrome may carry
InvalidValues == {0, 2}

\* well-formed syndromes and syndromes with one malformed entry
SyndromeInputs(n) ==
  LET valid == [1 .. n -> {1, -1}]
  IN  valid \cup {[s EXCEPT ![k] = v] : s \in valid, k \in 1 .. n,
                                        v \in InvalidValues}

\* if error_type and error_qubit is not None
e_set(et, eq) == et # "None" /\ eq # NoQubit

HasError == e_set(error_type, error_qubit)

\* the device keeps its register between calls
DeviceKept(t, n) == t

\* the register a circuit call starts from: the simulator puts every wire
\* of the device in |0> at the start of each execution
DeviceAtCall(t, n) == InitTab(n)

CircuitInit(p, src, tgt, n) ==
  /\ prog = p
  /\ source_code = src
  /\ target_code = tgt
  /\ tab = InitTab(n)
  /\ calls = 1
  /\ error2 = <<"None", NoQubit>>
  /\ step = 1
  /\ raw = <<>>
  /\ ref = <<>>
  /\ report = <<>>
  /\ syndrome = <<>>
  /\ decoded = <<>>

Init13 ==
  /\ CircuitInit("surface13", "surface13", "surface13", S13_QUBITS)
  /\ initial = 0
  /\ \E e \in ErrorInputs : error_type = e[1] /\ error_qubit = e[2]
  /\ pc = IF HasError THEN "error" ELSE "measure"

Init17 ==
  /\ CircuitInit("surface17", "surface17", "surface17", S17_QUBITS)
  /\ initial \in {0, 1}
  /\ \E e \in ErrorInputs : error_type = e[1] /\ error_qubit = e[2]
  /\ pc = "prepare"

InitConv ==
  /\ \E src \in {"surface13", "surface17"} :
       CircuitInit("convert", src, OtherCode(src), max_qubits)
  /\ initial \in {0, 1}
  /\ \E e \in ErrorInputs : error_type = e[1] /\ error_qubit = e[2]
  /\ pc = "source_stabilizers"

InitDecode ==
  /\ \/ prog = "decode17" /\ syndrome \in SyndromeInputs(8)
     \/ prog = "decode13" /\ syndrome \in SyndromeInputs(4)
  /\ source_code = IF prog = "decode17" THEN "surface17" ELSE "surface13"
  /\ target_code = source_code
  /\ initial = 0
  /\ error_type = "None"
  /\ error_qubit = NoQubit
  /\ pc = "decode"
  /\ step = 1
  /\ calls = 1
  /\ error2 = <<"None", NoQubit>>
  /\ tab = <<>>
  /\ raw = <<>>
  /\ ref = <<>>
  /\ report = <<>>
  /\ decoded = <<>>

\* the programs that compute their result in one step
DirectInit(p, code) ==
  /\ prog = p
  /\ source_code = code
  /\ target_code = code
  /\ initial = 0
  /\ pc = "run"
  /\ step = 1
  /\ calls = 1
  /\ tab = <<>>
  /\ raw = <<>>
  /\ ref = <<>>
  /\ report = <<>>
  /\ syndrome = <<>>
  /\ decoded = <<>>

InitSimulate13 ==
  /\ DirectInit("simulate13", "surface13")
  /\ \E e \in ErrorInputs : error_type = e[1] /\ error_qubit = e[2]
  /\ error2 = <<"None", NoQubit>>

\* two Pauli errors, any types, any data qubits
InitMulti17 ==
  /\ DirectInit("multi17", "surface17")
  /\ \E e \in ErrorTypes \X DATA : error_type = e[1] /\ error_qubit = e[2]
  /\ error2 \in ErrorTypes \X DATA

\* the error list of simulate_random_noise: at most one error per qubit, in
\* increasing qubit order; here lists of two errors
InitNoise13 ==
  /\ DirectInit("noise13", "surface13")
  /\ \E e \in ErrorTypes \X DATA : error_type = e[1] /\ error_qubit = e[2]
  /\ error2 \in ErrorTypes \X DATA
  /\ error_qubit < error2[2]

Init ==
  \/ Init13 \/ Init17 \/ InitConv \/ InitDecode
  \/ InitSimulate13 \/ InitMulti17 \/ InitNoise13

----------------------------------------------------------------------------
(* surface13_circuit, then reference_circuit *)

S13_Error ==
  /\ prog = "surface13" /\ pc = "error"
  /\ tab' = ApplyGates(tab, ErrorGates(error_type, error_qubit))
  /\ pc' = "measure"
  /\ UNCHANGED << inputs, calls, step, raw, ref, report, decoded >>

S13_Measure ==
  /\ prog = "surface13" /\ pc = "measure"
  /\ tab' = ApplyGates(tab, Surface13Check(step))
  /\ IF step < Len(S13_STABILIZERS)
     THEN step' = step + 1 /\ pc' = pc
     ELSE step' = 1 /\ pc' = "return"
  /\ UNCHANGED << inputs, calls, raw, ref, report, decoded >>

S13_Return ==
  /\ prog = "surface13" /\ pc = "return"
  /\ raw' = Surface13Return(tab)
  /\ pc' = "reference"
  /\ UNCHANGED << inputs, calls, step, tab, ref, report, decoded >>

S13_Reference ==
  /\ prog = "surface13" /\ pc = "reference"
  /\ ref' = reference_circuit
  /\ pc' = "done"
  /\ UNCHANGED << inputs, calls, step, tab, raw, report, decoded >>

----------------------------------------------------------------------------
(* prepare_and_measure, then the rest of run_surface17 *)

S17_AfterPrepare ==
  IF initial = 1 THEN "logical_x"
  ELSE IF HasError THEN "error" ELSE "measure"

S17_Prepare ==
  /\ prog = "surface17" /\ pc = "prepare"
  /\ tab' = ApplyGates(tab, Surface17Prepare(Surface17XStabilizers[step]))
  /\ IF step < Len(Surface17XStabilizers)
     THEN step' = step + 1 /\ pc' = pc
     ELSE step' = 1 /\ pc' = S17_AfterPrepare
  /\ UNCHANGED << inputs, calls, raw, ref, report, decoded >>

S17_LogicalX ==
  /\ prog = "surface17" /\ pc = "logical_x"
  /\ tab' = ApplyGates(tab, Surface17LogicalX(initial))
  /\ pc' = IF HasError THEN "error" ELSE "measure"
  /\ UNCHANGED << inputs, calls, step, raw, ref, report, decoded >>

S17_Error ==
  /\ prog = "surface17" /\ pc = "error"
  /\ tab' = ApplyGates(tab, ErrorGates(error_type, error_qubit))
  /\ pc' = "measure"
  /\ UNCHANGED << inputs, calls, step, raw, ref, report, decoded >>

S17_Measure ==
  /\ prog = "surface17" /\ pc = "measure"
  /\ tab' = ApplyGates(tab, StabCheck(S17_STABILIZERS[step]))
  /\ IF step < Len(S17_STABILIZERS)
     THEN step' = step + 1 /\ pc' = pc
     ELSE step' = 1 /\ pc' = "return"
  /\ UNCHANGED << inputs, calls, raw, ref, report, decoded >>

S17_Return ==
  /\ prog = "surface17" /\ pc = "return"
  /\ raw' = Surface17Return(tab)
  /\ pc' = "reference"
  /\ UNCHANGED << inputs, calls, step, tab, ref, report, decoded >>

\* the reference run and the comparison of run_surface17
S17_Report ==
  /\ prog = "surface17" /\ pc = "reference"
  /\ ref' = prepare_and_measure(initial, "None", NoQubit)
  /\ report' = Surface17Report(raw, ref')
  /\ pc' = "done"
  /\ UNCHANGED << inputs, calls, step, tab, raw, decoded >>

----------------------------------------------------------------------------
(* code_conversion_circuit, block by block *)

StageIndex(stage) == CHOOSE i \in DOMAIN ConvStages : ConvStages[i] = stage

\* the block the code executes after the given one
ConvAfter(stage) ==
  ConvStages[NextRunning(ConvStages, StageIndex(stage), initial,
                         error_type, error_qubit)]

ConvBlock(stage) ==
  /\ prog = "convert" /\ pc = stage
  /\ tab' = ApplyGates(tab, ConvGates(stage, source_code, error_type,
                                      error_qubit, step))
  /\ pc' = ConvAfter(stage)
  /\ UNCHANGED << inputs, calls, step, raw, ref, report, decoded >>

Conv_SourceStabilizers == ConvBlock("source_stabilizers")
Conv_SourceLogicalX    == ConvBlock("source_logical_x")
Conv_InjectError       == ConvBlock("inject_error")
Conv_SourceSyndrome    == ConvBlock("source_syndrome")
Conv_Extract           == ConvBlock("extract")
Conv_Transfer          == ConvBlock("transfer")
Conv_ResetAncilla      == ConvBlock("reset_ancilla")

\* for q in range(1, 9): the rotation pair on data qubit q
Conv_Reset ==
  /\ prog = "convert" /\ pc = "reset"
  /\ tab' = ApplyGates(tab, ConvGates("reset", source_code, error_type,
                                      error_qubit, step))
  /\ IF step < 8
     THEN step' = step + 1 /\ pc' = pc
     ELSE step' = 1 /\ pc' = ConvAfter("reset")
  /\ UNCHANGED << inputs, calls, raw, ref, report, decoded >>

Conv_FanOut            == ConvBlock("fan_out")
Conv_TargetXStabilizers == ConvBlock("target_x_stabilizers")
Conv_TargetZStabilizers == ConvBlock("target_z_stabilizers")
Conv_TargetLogicalX    == ConvBlock("target_logical_x")

Conv_Measure ==
  /\ prog = "convert" /\ pc = "measure"
  /\ raw' = ConvReturn(tab, target_code)
  /\ pc' = "done"
  /\ UNCHANGED << inputs, calls, step, tab, ref, report, decoded >>

----------------------------------------------------------------------------
(* Functions that return in one step *)

Simulate13 ==
  /\ prog = "simulate13" /\ pc = "run"
  /\ raw' = simulate_surface13(error_type, error_qubit)
  /\ pc' = "done"
  /\ UNCHANGED << inputs, calls, step, tab, ref, report, decoded >>

\* run_tests, test 9: the two-error circuit, the reference run and the
\* comparison
Multi17 ==
  /\ prog = "multi17" /\ pc = "run"
  /\ raw' = multiple_error_circuit(<<error_type, error_qubit>>, error2)
  /\ ref' = prepare_and_measure(0, "None", NoQubit)
  /\ report' = Surface17Report(raw', ref')
  /\ pc' = "done"
  /\ UNCHANGED << inputs, calls, step, tab, decoded >>

Noise13 ==
  /\ prog = "noise13" /\ pc = "run"
  /\ raw' = NoiseSyndromes(<< <<error_type, error_qubit>>, error2 >>)
  /\ syndrome' = SubSeq(raw', 1, 4)
  /\ decoded' = << SimpleDecoder({k \in 1 .. 4 : Flipped(syndrome'[k])}, 4) >>
  /\ pc' = "done"
  /\ UNCHANGED << prog, source_code, target_code, initial, error_type,
                  error_qubit, error2, calls, step, tab, ref, report >>

----------------------------------------------------------------------------
(* A caller that calls the same circuit function again *)

\* the wires of the device the program runs on
DeviceWires ==
  CASE prog = "surface13" -> S13_QUBITS
    [] prog = "surface17" -> S17_QUBITS
    [] OTHER -> max_qubits

\* the next call: the same function, any arguments
CallAgain ==
  /\ prog \in {"surface13", "surface17", "convert"} /\ pc = "done"
  /\ calls < MaxRuns
  /\ calls' = calls + 1
  /\ \E e \in ErrorInputs : error_type' = e[1] /\ error_qubit' = e[2]
  /\ initial' \in (IF prog = "surface13" THEN {0} ELSE {0, 1})
  /\ source_code' \in (IF prog = "convert" THEN {"surface13", "surface17"}
                       ELSE {source_code})
  /\ target_code' = (IF prog = "convert" THEN OtherCode(source_code')
                     ELSE target_code)
  /\ tab' = DeviceAtCall(tab, DeviceWires)
  /\ pc' = (CASE prog = "surface13" ->
                 (IF e_set(error_type', error_qubit') THEN "error" ELSE "measure")
             [] prog = "surface17" -> "prepare"
             [] OTHER -> "source_stabilizers")
  /\ step' = 1
  /\ raw' = <<>> /\ ref' = <<>> /\ report' = <<>>
  /\ UNCHANGED << prog, syndrome, decoded, error2 >>

----------------------------------------------------------------------------
(* Decoder calls *)

\* one call of decode_syndrome; the two coins are the values
\* random.random() < 0.7 takes for S5 and S8
Decode17 ==
  /\ prog = "decode17" /\ Len(decoded) < MaxCalls
  /\ \E coin \in [{"S5", "S8"} -> BOOLEAN] :
       decoded' = Append(decoded, decode_syndrome(syndrome, coin))
  /\ UNCHANGED << inputs, calls, pc, step, tab, raw, ref, report >>

Decode13 ==
  /\ prog = "decode13" /\ Len(decoded) < MaxCalls
  /\ decoded' = Append(decoded, minimum_weight_decoder(syndrome))
  /\ UNCHANGED << inputs, calls, pc, step, tab, raw, ref, report >>

----------------------------------------------------------------------------

Next ==
  \/ S13_Error \/ S13_Measure \/ S13_Return \/ S13_Reference
  \/ S17_Prepare \/ S17_LogicalX \/ S17_Error \/ S17_Measure
  \/ S17_Return \/ S17_Report
  \/ Conv_SourceStabilizers \/ Conv_SourceLogicalX \/ Conv_InjectError
  \/ Conv_SourceSyndrome \/ Conv_Extract \/ Conv_Transfer
  \/ Conv_ResetAncilla \/ Conv_Reset
  \/ Conv_FanOut \/ Conv_TargetXStabilizers \/ Conv_TargetZStabilizers
  \/ Conv_TargetLogicalX \/ Conv_Measure
  \/ Simulate13 \/ Multi17 \/ Noise13
  \/ CallAgain
  \/ Decode17 \/ Decode13

Spec == Init /\ [][Next]_vars

----------------------------------------------------------------------------
(* Properties *)

\* the program p has run to its end
Finished(p) == prog = p /\ pc = "done"

\* C1: for both conversion directions and both initial values, a conversion
\* with no injected error reports a target logical-Z value of exactly +1 when
\* initial = 0 and exactly -1 when initial = 1.
C1_ConversionPreservesLogical ==
  (Finished("convert") /\ ~HasError)
    => raw[Len(raw)] = (IF initial = 0 THEN 1 ELSE -1)

\* C2: for both codes, the native run with initial = 0 and no error reports
\* no generator as different from the no-error reference run and reports
\* logical_z = +1.
C2_NativeNoErrorAllPlusOne ==
  /\ (Finished("surface17") /\ initial = 0 /\ ~HasError)
       => \A k \in 1 .. 9 : report[k] = 1
  /\ (Finished("surface13") /\ ~HasError)
       => /\ \A k \in 1 .. 4 : raw[k] = ref[k]
          /\ raw[5] = 1

\* C3: for Code-13 and every error on a data qubit, the entries of
\* surface13_circuit that differ from those of reference_circuit are exactly
\* the generators that verify_syndrome expects to flip (Z type containing the
\* qubit for X, X type containing it for Z, both for Y).
C3_Surface13FlipsAnticommuting ==
  (Finished("surface13") /\ HasError)
    => {k \in 1 .. 4 : raw[k] # ref[k]}
         = expected_flips(S13_STABILIZERS, error_type, error_qubit)

\* C4: for Code-17, every data qubit, every error type and both initial
\* values, run_surface17 reports -1 on exactly the generators that
\* anticommute with the injected error and +1 on all the others.
C4_Surface17FlipsAnticommuting ==
  (Finished("surface17") /\ HasError)
    => \A k \in 1 .. 8 :
         report[k] =
           (IF k \in expected_flips(S17_STABILIZERS, error_type, error_qubit)
            THEN -1 ELSE 1)

C4_Witness ==
  /\ Finished("surface17") /\ initial = 1
  /\ error_type = "Y" /\ error_qubit = 4
  /\ {k \in 1 .. 8 : report[k] = -1} = {1, 3, 6, 7}

\* C5: in prepare_and_measure the logical-Z expectation is -1 exactly when
\* (initial = 1) differs from (the error is X or Y on a qubit of the
\* logical-Z support), and +1 otherwise; a Z error never changes it.
C5_Surface17LogicalZ ==
  (prog = "surface17" /\ raw # <<>>)
    => raw[9] =
         (IF (initial = 1)
             # (error_type \in {"X", "Y"} /\ error_qubit \in Range(S17_LOGICAL_Z))
          THEN -1 ELSE 1)

C5_Witness ==
  /\ prog = "surface17" /\ raw # <<>>
  /\ initial = 1 /\ error_type = "X" /\ error_qubit = 8
  /\ raw[9] = 1

\* C6: every value returned by a native run or by a conversion, syndrome
\* entries and logical Z alike, is exactly +1 or -1.
C6_ValuesPlusMinusOne ==
  /\ \A k \in DOMAIN raw : raw[k] \in {1, -1}
  /\ \A k \in DOMAIN report : report[k] \in {1, -1}

C8_Visible ==
  source_code = "surface13" /\ error_type \in {"X", "Y"} /\ error_qubit \in {5, 8}

\* the same conversion with no error
C8_NoErrorRun ==
  code_conversion_circuit(source_code, target_code, initial, "None", NoQubit)

ValidSyndrome == \A k \in DOMAIN syndrome : syndrome[k] \in {1, -1}

\* C9: two calls of the decoder with the same syndrome return identical
\* corrections, for every syndrome of Code-17 and of Code-13.
C9_DecoderDeterministic ==
  (ValidSyndrome /\ Len(decoded) >= 2) => decoded[1] = decoded[2]

\* C10: decoding a syndrome in which every generator is +1 returns the empty
\* correction {X: [], Z: []}, for both decoders.
C10_AllPlusOneEmpty ==
  (\A k \in DOMAIN syndrome : syndrome[k] = 1)
    => \A i \in DOMAIN decoded : decoded[i] = EmptyCorrections

C10_Witness ==
  /\ prog = "decode17" /\ Len(decoded) >= 2
  /\ \A k \in DOMAIN syndrome : syndrome[k] = 1

\* C11: the decoder fails with an invalid-syndrome error, and returns no
\* correction, whenever a value of the input syndrome is not +1 or -1; this
\* holds for the Code-17 decoder and for the Code-13 decoder.
C11_InvalidSyndromeRejected ==
  ~ValidSyndrome
    => \A i \in DOMAIN decoded :
         decoded[i] = [status |-> "ValueError", X |-> <<>>, Z |-> <<>>]

\* C12: a native run or a conversion requested with an error type outside
\* {X, Y, Z} fails with an error and never returns a result.
C12_UnsupportedTypeRejected ==
  (error_type \in UnsupportedTypes /\ error_qubit # NoQubit)
    => raw = <<>> /\ report = <<>> /\ pc # "done"

\* the values the circuit function of the program gives for the arguments
\* of the call in progress
C13_CallResult ==
  CASE prog = "surface13" -> surface13_circuit(error_type, error_qubit)
    [] prog = "surface17" -> prepare_and_measure(initial, error_type, error_qubit)
    [] OTHER -> code_conversion_circuit(source_code, target_code, initial,
                                        error_type, error_qubit)

CodeStabilizers(code) ==
  IF code = "surface13" THEN S13_STABILIZERS ELSE S17_STABILIZERS

CodeLogicalX(code) == IF code = "surface13" THEN S13_LOGICAL_X ELSE S17_LOGICAL_X

CodeLogicalZ(code) == IF code = "surface13" THEN S13_LOGICAL_Z ELSE S17_LOGICAL_Z

\* C14: a conversion returns one value per generator of the target code, in
\* the order of the target code's table (the k-th value is measured on the
\* support of the k-th generator), followed by one value measured on the
\* logical-Z support: 4 + 1 values for Surface-13, 8 + 1 for Surface-17.
C14_OnePerGeneratorThenLogical ==
  Finished("convert")
    => LET stabs == CodeStabilizers(target_code)
           obs == ConvObservables(target_code)
       IN  /\ Len(raw) = Len(stabs) + 1
           /\ Len(raw) = (IF target_code = "surface13" THEN 5 ELSE 9)
           /\ \A k \in 1 .. Len(stabs) :
                Range(obs[k].wires) = Range(stabs[k].data)
           /\ obs[Len(raw)] =
                [type |-> "Z", wires |-> CodeLogicalZ(target_code)]

C14_Witness ==
  /\ Finished("convert") /\ target_code = "surface17" /\ initial = 1
  /\ error_type = "Y" /\ error_qubit = 3
  /\ Len(raw) = 9

\* C15: after the reset step of a conversion every qubit that was reset
\* (data qubits 1..8, and the transfer qubit when it was used) has Pauli-Z
\* expectation +1.
C15_ResetToGround ==
  (prog = "convert" /\ pc = "fan_out")
    => /\ \A q \in 1 .. 8 : ExpvalZ(tab, <<q>>) = 1
       /\ initial = 1 => ExpvalZ(tab, <<transfer_qubit>>) = 1

\* C16: with initial = 1 and no error, right after the read-out (Hadamard
\* on the transfer qubit, CNOTs against the source logical-Z support,
\* Hadamard) the transfer qubit has Pauli-Z expectation -1.
C16_TransferHoldsLogical ==
  (prog = "convert" /\ pc = "transfer" /\ initial = 1 /\ ~HasError)
    => ExpvalZ(tab, <<transfer_qubit>>) = -1

\* the expectation of generator k of the table on the data register
GeneratorExpval(t, code, k) ==
  ExpvalOf(t, [type |-> CodeStabilizers(code)[k].type,
               wires |-> CodeStabilizers(code)[k].data])

\* C17: after the last encoding step of a conversion with no error every
\* target generator has expectation +1, and the conversion reports +1 for
\* every target generator.
C17_TargetGroundSpace ==
  /\ (prog = "convert" /\ pc = "measure" /\ ~HasError)
       => \A k \in DOMAIN CodeStabilizers(target_code) :
            GeneratorExpval(tab, target_code, k) = 1
  /\ (Finished("convert") /\ ~HasError)
       => \A k \in DOMAIN CodeStabilizers(target_code) : raw[k] = 1

\* state preparation of the native Surface-17 run is over and no error has
\* been injected yet
C18_Prepared ==
  /\ prog = "surface17"
  /\ \/ pc \in {"logical_x", "error"}
     \/ pc = "measure" /\ step = 1

\* C18: after the state preparation of the native Surface-17 run, before
\* the error, the data register is a +1 eigenstate of every generator.
C18_PreparedEigenstate ==
  C18_Prepared
    => \A k \in DOMAIN S17_STABILIZERS :
         GeneratorExpval(tab, "surface17", k) = 1

\* the supports of a meet in an even number of qubits
EvenOverlap(a, b) == Cardinality(Range(a) \cap Range(b)) % 2 = 0

\* C19: in both code tables the support of every X-type generator and the
\* support of every Z-type generator meet in an even number of data qubits.
C19_GeneratorsCommute ==
  LET stabs == CodeStabilizers(source_code)
  IN  \A i, j \in DOMAIN stabs :
        (stabs[i].type = "X" /\ stabs[j].type = "Z")
          => EvenOverlap(stabs[i].data, stabs[j].data)

\* C20: in both code tables the logical-X support meets every Z-type
\* generator evenly, the logical-Z support meets every X-type generator
\* evenly, and the two logical supports meet in an odd number of qubits.
C20_LogicalOperators ==
  LET stabs == CodeStabilizers(source_code)
  IN  /\ \A k \in DOMAIN stabs :
           /\ stabs[k].type = "Z"
                => EvenOverlap(CodeLogicalX(source_code), stabs[k].data)
           /\ stabs[k].type = "X"
                => EvenOverlap(CodeLogicalZ(source_code), stabs[k].data)
      /\ ~EvenOverlap(CodeLogicalX(source_code), CodeLogicalZ(source_code))

----------------------------------------------------------------------------
(* The order of the steps of a conversion *)

\* the step of the conversion a block belongs to, numbered in the order
\* 1 source stabilizer preparation, 2 source logical X, 3 error injection,
\* 4 read-out onto the transfer qubit and copy to qubit 0, 5 reset of data
\* qubits 1..8, 6 fan-out from qubit 0, 7 target stabilizer sequence,
\* 8 target logical X, 9 measurement, 10 returned
StepOf(stage) ==
  CASE stage = "source_stabilizers" -> 1
    [] stage = "source_logical_x" -> 2
    [] stage \in {"inject_error", "source_syndrome"} -> 3
    [] stage \in {"extract", "transfer", "reset_ancilla"} -> 4
    [] stage = "reset" -> 5
    [] stage = "fan_out" -> 6
    [] stage \in {"target_x_stabilizers", "target_z_stabilizers"} -> 7
    [] stage = "target_logical_x" -> 8
    [] stage = "measure" -> 9
    [] OTHER -> 10

\* whether a conversion with the current arguments has the step
StepRequested(k) ==
  CASE k \in {2, 4, 8} -> initial = 1
    [] k = 3 -> HasError
    [] OTHER -> TRUE

\* a step of the model inside one call of code_conversion_circuit
ConversionStep == prog = "convert" /\ calls' = calls /\ pc # "done"

\* C21: the steps of a conversion happen in the order source stabilizer
\* preparation, source logical X (only with initial = 1), error injection
\* (only if an error is requested), read-out onto the transfer qubit and
\* copy to qubit 0 (only with initial = 1), reset of data qubits 1..8,
\* fan-out from qubit 0, target stabilizer sequence, target logical X (only
\* with initial = 1), measurement: every step of the program stays in the
\* current step or moves to the next requested one, so no reset of a data
\* qubit precedes the read-out and no error gate follows it.
C21_StepsInOrder ==
  [][ConversionStep =>
        /\ StepOf(pc) <= StepOf(pc')
        /\ StepRequested(StepOf(pc)) /\ StepRequested(StepOf(pc'))
        /\ \A k \in (StepOf(pc) + 1) .. (StepOf(pc') - 1) : ~StepRequested(k)
        /\ (pc = "reset" => StepOf(pc') \in {5, 6})
        /\ (pc' = "inject_error" => StepOf(pc) < 3)]_vars

\* a conversion with initial = 1 and an error has returned: all nine steps
\* have run
C21_Witness ==
  Finished("convert") /\ initial = 1 /\ HasError /\ error_type \in ErrorTypes

\* C22: every conversion runs a source syndrome measurement after the
\* source preparation (and the error injection) and before the logical
\* transfer, with or without an error and whatever the error qubit: the
\* step that leaves the source phase is the source syndrome block, and the
\* block acts on the register.
C22_SourceMeasuredBeforeTransfer ==
  [][(ConversionStep /\ StepOf(pc) <= 3 /\ StepOf(pc') >= 4)
       => /\ pc = "source_syndrome"
          /\ ConvGates(pc, source_code, error_type, error_qubit, step) # <<>>]_vars

\* data qubit q carries a single-qubit Pauli of the stabilizer group, which
\* for a stabilizer state is the condition that q is in a product state
\* with the rest of the register
Unentangled(t, q) ==
  \/ Expval(t, {q}, {}) # 0
  \/ Expval(t, {}, {q}) # 0
  \/ Expval(t, {q}, {q}) # 0

\* C23: at every reset during a conversion (data qubits 1..8 in the reset
\* loop, the transfer qubit after the read-out) the qubit being reset is
\* unentangled with the rest of the register.
C23_ResetQubitUnentangled ==
  /\ (prog = "convert" /\ pc = "reset") => Unentangled(tab, step)
  /\ (prog = "convert" /\ pc = "reset_ancilla")
       => Unentangled(tab, transfer_qubit)

----------------------------------------------------------------------------
(* The corrections of the decoders *)

\* the generators of the syndrome that are flipped
FlippedSet(s) == {k \in DOMAIN s : s[k] = -1}

\* the correction has, for each generator of the set, the first qubit of
\* its support under the opposite Pauli type, and nothing else
DirectPolicy(stabilizers, c, flips) ==
  /\ Range(c.X) = {stabilizers[k].data[1] :
                     k \in {j \in flips : stabilizers[j].type = "Z"}}
  /\ Range(c.Z) = {stabilizers[k].data[1] :
                     k \in {j \in flips : stabilizers[j].type = "X"}}
  /\ Len(c.X) = Cardinality(Range(c.X))
  /\ Len(c.Z) = Cardinality(Range(c.Z))

\* the corrections computed so far for a Code-13 syndrome, each with the
\* set of flipped generators it was computed for
Code13Decoded ==
  IF (prog = "decode13" /\ ValidSyndrome) \/ Finished("noise13")
  THEN {<<decoded[i], FlippedSet(syndrome)>> : i \in DOMAIN decoded}
  ELSE {}

\* C24 as stated: for Code-13, for every syndrome, the decoder's correction
\* contains, for each flipped generator, the first qubit of its support
\* under the opposite Pauli type, and nothing else.
C24_DirectPolicy ==
  \A d \in Code13Decoded : DirectPolicy(S13_STABILIZERS, d[1], d[2])

\* the flipped sets for which minimum_weight_decoder answers with a Y
\* correction on one corner qubit
C24_CornerEntries == [key \in {{2, 4}, {1, 3}, {3, 4}} |->
                        CASE key = {2, 4} -> 2
                          [] key = {1, 3} -> 6
                          [] key = {3, 4} -> 8]

\* C24 amended: the corrections of run_test and simulate_random_noise, and
\* those of minimum_weight_decoder for 13 of the 16 syndromes, follow the
\* direct policy; for the flipped sets {S2,S4}, {S1,S3} and {S3,S4}
\* minimum_weight_decoder returns one X and one Z correction on qubit 2, 6
\* and 8 respectively.
C24_DirectPolicyOrCorner ==
  \A d \in Code13Decoded :
    IF prog = "decode13" /\ d[2] \in DOMAIN C24_CornerEntries
    THEN /\ d[1].X = <<C24_CornerEntries[d[2]]>>
         /\ d[1].Z = <<C24_CornerEntries[d[2]]>>
    ELSE DirectPolicy(S13_STABILIZERS, d[1], d[2])

C24_Witness ==
  /\ prog = "decode13" /\ decoded # <<>>
  /\ FlippedSet(syndrome) = {3, 4} /\ ValidSyndrome

\* C25: for the Code-17 decoder, whenever exactly one generator is flipped,
\* the correction is exactly one entry: the first qubit of the generator's
\* support, under Z for an X-type generator and under X for a Z-type one.
C25_SingleFlipSingleEntry ==
  (prog = "decode17" /\ ValidSyndrome /\ Cardinality(FlippedSet(syndrome)) = 1)
    => \A i \in DOMAIN decoded :
         LET stab == S17_STABILIZERS[CHOOSE k \in FlippedSet(syndrome) : TRUE]
         IN  IF stab.type = "X"
             THEN decoded[i].X = <<>> /\ decoded[i].Z = <<stab.data[1]>>
             ELSE decoded[i].X = <<stab.data[1]>> /\ decoded[i].Z = <<>>

\* the generators a correction flips when its entries are applied as Pauli
\* operators: those that anticommute with an odd number of them
CorrectionFlips(stabilizers, c) ==
  {k \in DOMAIN stabilizers :
     LET hits == IF stabilizers[k].type = "Z" THEN c.X ELSE c.Z
     IN  Cardinality({i \in DOMAIN hits :
                        hits[i] \in Range(stabilizers[k].data)}) % 2 = 1}

\* C26: for Code-17 and every single-qubit Pauli error, the correction the
\* decoder returns for the syndrome the circuit reports flips exactly the
\* generators the error flipped, whatever the decoder's random draws.
C26_CorrectionUndoesSyndrome ==
  (Finished("surface17") /\ error_type \in ErrorTypes /\ error_qubit \in DATA)
    => \A coin \in [{"S5", "S8"} -> BOOLEAN] :
         CorrectionFlips(S17_STABILIZERS,
                         decode_syndrome(SubSeq(report, 1, 8), coin))
           = FlippedSet(SubSeq(report, 1, 8))

\* C27: for Code-13 and every one of the 16 syndromes, the correction of
\* minimum_weight_decoder flips exactly the flipped generators: its X
\* corrections the flipped Z-type ones, its Z corrections the flipped
\* X-type ones.
C27_CorrectionReproducesSyndrome ==
  (prog = "decode13" /\ ValidSyndrome)
    => \A i \in DOMAIN decoded :
         CorrectionFlips(S13_STABILIZERS, decoded[i]) = FlippedSet(syndrome)

C27_Witness ==
  /\ prog = "decode13" /\ Len(decoded) >= 1
  /\ FlippedSet(syndrome) = {1, 2, 3, 4} /\ ValidSyndrome
  /\ decoded[1].X = <<0, 6>> /\ decoded[1].Z = <<0, 2>>

----------------------------------------------------------------------------
(* The simulated run of Surface-13 *)

\* C28: in simulate_surface13 the logical-Z readout is -1 exactly when the
\* injected error is an X or Y error on a qubit of the logical-Z support
\* {0, 3, 6}, and +1 otherwise.
C28_SimulatedLogicalZ ==
  Finished("simulate13")
    => raw[5] = (IF /\ error_type \in {"X", "Y"}
                    /\ error_qubit \in Range(S13_LOGICAL_Z)
                 THEN -1 ELSE 1)

----------------------------------------------------------------------------
(* The observables a conversion reports *)

\* C29: in a conversion the k-th reported syndrome value is the expectation
\* of the Pauli string of the k-th target generator's own type on that
\* generator's support, and none of the syndrome observables is the
\* observable of the logical-Z readout.
C29_ReportsTableGenerators ==
  Finished("convert")
    => LET obs == ConvObservables(target_code)
           stabs == CodeStabilizers(target_code)
       IN  \A k \in DOMAIN stabs :
             /\ obs[k].type = stabs[k].type
             /\ Range(obs[k].wires) = Range(stabs[k].data)
             /\ <<obs[k].type, Range(obs[k].wires)>>
                  # <<obs[Len(obs)].type, Range(obs[Len(obs)].wires)>>

----------------------------------------------------------------------------
(* Two errors together *)

SymDiff(A, B) == (A \ B) \cup (B \ A)

\* the generators of Surface-17 the error flips when run_surface17 injects
\* it alone
AloneFlips17(e) ==
  FlippedSet(SubSeq(Surface17Report(prepare_and_measure(0, e[1], e[2]),
                                    prepare_and_measure(0, "None", NoQubit)),
                    1, 8))

\* the generators of Surface-13 the error flips when it is the only error
\* of the list
AloneFlips13(e) == FlippedSet(SubSeq(NoiseSyndromes(<<e>>), 1, 4))

\* C30: when two single-qubit Pauli errors are injected together, the set
\* of flipped generators is the symmetric difference of the sets each of
\* them flips alone, in the two-error circuit of Surface-17 and in the
\* noise simulation of Surface-13.
C30_SyndromesCombineLinearly ==
  /\ Finished("multi17")
       => FlippedSet(SubSeq(report, 1, 8))
            = SymDiff(AloneFlips17(<<error_type, error_qubit>>),
                      AloneFlips17(error2))
  /\ Finished("noise13")
       => FlippedSet(SubSeq(raw, 1, 4))
            = SymDiff(AloneFlips13(<<error_type, error_qubit>>),
                      AloneFlips13(error2))

\* the run of the test: X on qubit 1 with Z on qubit 5 flips S3 and S6
C30_Witness ==
  /\ Finished("multi17")
  /\ error_type = "X" /\ error_qubit = 1 /\ error2 = <<"Z", 5>>
  /\ FlippedSet(SubSeq(report, 1, 8)) = {3, 6}

====
